---- MODULE Spec2Model ----
(***************************************************************************)
(* Model of src/bot.py: the OMDb / Trakt / Watchmode fetch helpers, the    *)
(* Telegram handlers that call them, and the lazily created shared HTTP    *)
(* client.                                                                 *)
(*                                                                         *)
(* A JSON value is abstracted to its Python type and its size,             *)
(* [t |-> "null" | "map" | "list" | "int", n |-> size]: this is what the   *)
(* helpers' truthiness tests (x or {}), .get calls, slices and loops       *)
(* depend on.  A non-empty document has the shape the endpoint documents.  *)
(*                                                                         *)
(* bot.py as committed has string literals broken across lines (311-316,   *)
(* 337-342, 403-405) and a doubled parameter list (344); they are read as  *)
(* the "\n" escapes and the single signature they evidently stand for.     *)
(***************************************************************************)
EXTENDS Integers, Sequences, FiniteSets, TLC

\* Largest retry budget N a fetch request is given.
MaxBudget == 2
\* Number of concurrent handler tasks, and fetches one task performs.
NumTasks == 3
MaxFetches == 2

VARIABLES
    TRAKT_CLIENT_ID,    \* "" when the environment variable is unset
    WATCHMODE_API_KEY,  \* "" when the environment variable is unset
    _client,            \* the module-level shared client: 0 is None
    made,               \* how many httpx.AsyncClient objects were constructed
    handler,            \* the handler (or directly called helper) in progress
    running,            \* TRUE until the handler returned or raised
    helper,             \* the fetch helper the handler called last
    gets,               \* endpoints of the GETs issued for this update, in order
    recv,               \* responses received for them, in order
    loc,                \* the handler's local variables
    ret,                \* outcome of the most recent helper call
    replies,            \* messages sent or edited for this update
    unhandled,          \* exception that left the handler (seen by on_error)
    shown,              \* keyboards the chat has been shown so far
    budget,             \* retry budget N of the fetch request under test
    target,             \* the logical fetch whose responses are scripted
    script,             \* upstream's responses to its attempts 1..N
    task                \* concurrent handler tasks sharing client()

vars == <<TRAKT_CLIENT_ID, WATCHMODE_API_KEY, _client, made, handler, running,
          helper, gets, recv, loc, ret, replies, unhandled, shown, budget,
          target, script, task>>

Min(a, b) == IF a < b THEN a ELSE b

-----------------------------------------------------------------------------
(* Upstream responses *)

Transient == {429, 500, 502, 503, 504}
ErrorStatuses == Transient \cup {404}
Docs == {"D1", "D2"}
Bodies == {"<html>", "null", "{}", "[]"} \cup Docs

\* net = FALSE: the request failed in transport (connect error, timeout).
Responses ==
    {[net |-> FALSE, status |-> 0, body |-> ""]}
    \cup {[net |-> TRUE, status |-> s, body |-> ""] : s \in ErrorStatuses}
    \cup {[net |-> TRUE, status |-> 200, body |-> b] : b \in Bodies}

MapEndpoints == {"omdb_s", "omdb_i", "wm_search", "wm_titles_plural", "wm_titles_singular"}
ListEndpoints == {"trakt_shows", "trakt_movies", "wm_title_sources", "wm_sources"}
Endpoints == MapEndpoints \cup ListEndpoints

\* The two list-titles requests of watchmode_titles_by_source_name ask for the
\* same thing with different parameter names: one logical fetch.
Logical(ep) == IF ep \in {"wm_titles_plural", "wm_titles_singular"} THEN "wm_titles" ELSE ep

-----------------------------------------------------------------------------
(* JSON values and the Python operations the helpers apply to them *)

None == [t |-> "null", n |-> 0]
EmptyMap == [t |-> "map", n |-> 0]
EmptyList == [t |-> "list", n |-> 0]
List(k) == [t |-> "list", n |-> k]

IsJson(body) == body # "<html>" /\ body # ""

DocSize(body) == IF body = "D1" THEN 1 ELSE 2

\* r.json(): document Dk of a map endpoint is an object whose result key holds
\* k entries; of a list endpoint, an array of k entries.
json(ep, body) ==
    CASE body = "null" -> None
      [] body = "{}"   -> EmptyMap
      [] body = "[]"   -> EmptyList
      [] OTHER         -> [t |-> IF ep \in MapEndpoints THEN "map" ELSE "list",
                           n |-> DocSize(body)]

Truthy(v) == v.t # "null" /\ v.n > 0
Or(v, d) == IF Truthy(v) THEN v ELSE d
\* m.get(key) on a map: the entries under the key, None when the key is absent.
Get(m) == IF m.n > 0 THEN List(m.n) ELSE None

Return(v) == [k |-> "return", ep |-> "", val |-> v, exc |-> ""]
Raise(e) == [k |-> "raise", ep |-> "", val |-> None, exc |-> e]
Await(e) == [k |-> "get", ep |-> e, val |-> None, exc |-> ""]
NoRet == [k |-> "none", ep |-> "", val |-> None, exc |-> ""]

-----------------------------------------------------------------------------
(* The fetch helpers: what each does with the response it was waiting for *)

\* r.raise_for_status(): TRUE when it raises httpx.HTTPStatusError.
raise_for_status(resp) == resp.status # 200

\* r = await client().get(...); r.raise_for_status(); r.json()
GetJson(ep, resp) ==
    IF ~resp.net THEN Raise("TransportError")
    ELSE IF raise_for_status(resp) THEN Raise("HTTPStatusError")
    ELSE IF ~IsJson(resp.body) THEN Raise("JSONDecodeError")
    ELSE Return(json(ep, resp.body))

omdb_search(resp) ==
    LET r == GetJson("omdb_s", resp) IN
    IF r.k = "raise" THEN r
    ELSE LET js == Or(r.val, EmptyMap) IN
         IF js.t # "map" THEN Raise("AttributeError")
         ELSE Return(Or(Get(js), EmptyList))

\* omdb_by_id with its fetch wrapped in "except Exception: return {}".
omdb_by_id_swallowing(resp) ==
    LET r == GetJson("omdb_i", resp) IN
    IF r.k = "raise" THEN Return(EmptyMap) ELSE Return(Or(r.val, EmptyMap))

omdb_by_id(resp) ==
    LET r == GetJson("omdb_i", resp) IN
    IF r.k = "raise" THEN r ELSE Return(Or(r.val, EmptyMap))

trakt_calendar(ep, resp) == GetJson(ep, resp)

watchmode_search_by_imdb(resp) ==
    LET r == GetJson("wm_search", resp) IN
    IF r.k = "raise" THEN r
    ELSE LET js == Or(r.val, EmptyMap) IN
         IF js.t # "map" THEN Raise("AttributeError")
         ELSE LET res == Or(Get(js), EmptyList) IN
              Return(IF res.n > 0 THEN [t |-> "int", n |-> res.n] ELSE None)

SourcesKept == 12

watchmode_sources_by_imdb(ep, resp) ==
    IF ep = "wm_search"
    THEN LET s == watchmode_search_by_imdb(resp) IN
         IF s.k = "raise" THEN s
         ELSE IF ~Truthy(s.val) THEN Return(EmptyList)
         ELSE Await("wm_title_sources")
    ELSE LET r == GetJson("wm_title_sources", resp) IN
         IF r.k = "raise" THEN r
         ELSE IF r.val.t = "null" THEN Raise("TypeError")
         ELSE IF r.val.t = "map" /\ r.val.n > 0 THEN Raise("AttributeError")
         ELSE Return(List(Min(r.val.n, SourcesKept)))

watchmode_sources_list(resp) ==
    LET r == GetJson("wm_sources", resp) IN
    IF r.k = "raise" THEN r ELSE Return(Or(r.val, EmptyList))

\* Document D1 of /sources/ lists the platform asked for (with a non-zero
\* id); document D2 lists two other platforms.
HasPlatform(sources) == sources.t = "list" /\ sources.n = 1

\* r.raise_for_status(); return r.json().get("titles") or []
ListTitles(ep, resp) ==
    LET r == GetJson(ep, resp) IN
    IF r.k = "raise" THEN r
    ELSE IF r.val.t # "map" THEN Raise("AttributeError")
    ELSE Return(Or(Get(r.val), EmptyList))

\* watchmode_titles_by_source_name falling back on "except Exception"
\* instead of "except httpx.HTTPStatusError".
watchmode_titles_any_error(ep, resp) ==
    CASE ep = "wm_sources" ->
            LET s == watchmode_sources_list(resp) IN
            IF s.k = "raise" THEN s
            ELSE IF s.val.t = "map" THEN Raise("AttributeError")
            ELSE IF ~HasPlatform(s.val) THEN Return(EmptyList)
            ELSE Await("wm_titles_plural")
      [] ep = "wm_titles_plural" ->
            LET r == ListTitles(ep, resp) IN
            IF r.k = "raise" THEN Await("wm_titles_singular") ELSE r
      [] OTHER ->
            LET r2 == ListTitles(ep, resp) IN
            IF r2.k = "raise" THEN Return(EmptyList) ELSE r2

watchmode_titles_by_source_name(ep, resp) ==
    CASE ep = "wm_sources" ->
            LET s == watchmode_sources_list(resp) IN
            IF s.k = "raise" THEN s
            ELSE IF s.val.t = "map" THEN Raise("AttributeError")
            ELSE IF ~HasPlatform(s.val) THEN Return(EmptyList)
            ELSE Await("wm_titles_plural")
      [] ep = "wm_titles_plural" ->
            LET r == ListTitles(ep, resp) IN
            IF r.k = "raise" /\ r.exc = "HTTPStatusError"
            THEN Await("wm_titles_singular")
            ELSE r
      [] OTHER ->
            LET r2 == ListTitles(ep, resp) IN
            IF r2.k = "raise" THEN Return(EmptyList) ELSE r2

Helpers == {"omdb_search", "omdb_by_id", "trakt_calendar", "watchmode_search_by_imdb",
            "watchmode_sources_by_imdb", "watchmode_sources_list",
            "watchmode_titles_by_source_name"}

\* A helper resumed with the response to its pending GET.
HelperStep(h, ep, resp) ==
    CASE h = "omdb_search" -> omdb_search(resp)
      [] h = "omdb_by_id" -> omdb_by_id(resp)
      [] h = "trakt_calendar" -> trakt_calendar(ep, resp)
      [] h = "watchmode_search_by_imdb" -> watchmode_search_by_imdb(resp)
      [] h = "watchmode_sources_by_imdb" -> watchmode_sources_by_imdb(ep, resp)
      [] h = "watchmode_sources_list" -> watchmode_sources_list(resp)
      [] OTHER -> watchmode_titles_by_source_name(ep, resp)

\* A helper called: its configuration guard, then its first GET.
HelperStart(h, kind) ==
    CASE h = "omdb_search" -> Await("omdb_s")
      [] h = "omdb_by_id" -> Await("omdb_i")
      [] h = "trakt_calendar" ->
            IF TRAKT_CLIENT_ID = "" THEN Return(EmptyList)
            ELSE Await(IF kind = "shows" THEN "trakt_shows" ELSE "trakt_movies")
      [] h = "watchmode_search_by_imdb" ->
            IF WATCHMODE_API_KEY = "" THEN Return(None) ELSE Await("wm_search")
      [] h = "watchmode_sources_by_imdb" ->
            IF WATCHMODE_API_KEY = "" THEN Return(EmptyList) ELSE Await("wm_search")
      [] h = "watchmode_sources_list" ->
            IF WATCHMODE_API_KEY = "" THEN Return(EmptyList) ELSE Await("wm_sources")
      [] OTHER ->
            IF WATCHMODE_API_KEY = "" THEN Return(EmptyList) ELSE Await("wm_sources")

\* The logical fetches a helper can make.
FetchesOf(h) ==
    CASE h = "omdb_search" -> {"omdb_s"}
      [] h = "omdb_by_id" -> {"omdb_i"}
      [] h = "trakt_calendar" -> {"trakt_shows", "trakt_movies"}
      [] h = "watchmode_search_by_imdb" -> {"wm_search"}
      [] h = "watchmode_sources_by_imdb" -> {"wm_search", "wm_title_sources"}
      [] h = "watchmode_sources_list" -> {"wm_sources"}
      [] OTHER -> {"wm_sources", "wm_titles"}

-----------------------------------------------------------------------------
(* The shared client *)

\* client() without the "if _client is None" test.
client_unguarded(c, m) == [c |-> m + 1, made |-> m + 1]

\* client(): the stored client, constructed first when there is none.
client(c, m) == IF c = 0 THEN [c |-> m + 1, made |-> m + 1] ELSE [c |-> c, made |-> m]

-----------------------------------------------------------------------------
(* Handlers: what each does up to its next await on the network *)

Msg(text, kb) == [text |-> text, kb |-> kb]

NoLoc == [rows |-> 0, shows |-> None, show |-> ""]

\* The handler returned (exc = "") or an exception exc left it.
Finish(say, exc, r) ==
    [running |-> FALSE, helper |-> helper, get |-> "", loc |-> loc, say |-> say,
     exc |-> exc, ret |-> r]

\* The handler is suspended in helper h on a GET to ep.
Fetching(h, ep, l, say, r) ==
    [running |-> TRUE, helper |-> h, get |-> ep, loc |-> l, say |-> say,
     exc |-> "", ret |-> r]

SearchShown == 6

\* cmd_search after omdb_search came back.
cmd_search_rows(o) ==
    IF o.k = "raise" THEN Finish(<<Msg("search_unavailable", "none")>>, "", o)
    ELSE IF ~Truthy(o.val) THEN Finish(<<Msg("no_results", "none")>>, "", o)
    ELSE Fetching("omdb_by_id", "omdb_i",
                  [loc EXCEPT !.rows = Min(o.val.n, SearchShown)], <<>>, o)

\* cmd_search after omdb_by_id came back for one row: send it, go to the next.
cmd_search_item(o) ==
    LET kb == IF WATCHMODE_API_KEY # "" THEN "src_imdb" ELSE "none"
        say == IF o.k = "raise" THEN <<>> ELSE <<Msg("item", kb)>>
    IN  IF loc.rows > 1
        THEN Fetching("omdb_by_id", "omdb_i", [loc EXCEPT !.rows = loc.rows - 1], say, o)
        ELSE Finish(say, "", o)

TodayShown == 8
WeekShown == 10

\* show_today / show_week once shows and movies are bound.
show_lines(shows, movies, o) ==
    LET lim == IF loc.show = "today" THEN TodayShown ELSE WeekShown IN
    IF shows.t # "list" \/ movies.t # "list" THEN Finish(<<>>, "TypeError", o)
    ELSE IF Min(shows.n, lim) + Min(movies.n, lim) = 0
    THEN Finish(<<Msg("trakt_unavailable", "menu")>>, "", o)
    ELSE Finish(<<Msg("calendar", "menu")>>, "", o)

\* show_today / show_week from their start.
show_start(which) ==
    LET l == [NoLoc EXCEPT !.show = which] IN
    IF TRAKT_CLIENT_ID = ""
    THEN [show_lines(EmptyList, EmptyList, NoRet) EXCEPT !.loc = l]
    ELSE Fetching("trakt_calendar", "trakt_shows", l, <<>>, NoRet)

\* show_today / show_week after a trakt_calendar call came back.
show_resume(ep, o) ==
    IF o.k = "raise" THEN show_lines(EmptyList, EmptyList, o)
    ELSE IF ep = "trakt_shows"
    THEN Fetching("trakt_calendar", "trakt_movies", [loc EXCEPT !.shows = o.val], <<>>, o)
    ELSE show_lines(loc.shows, o.val, o)

\* on_sources_imdb after watchmode_sources_by_imdb moved on.
on_sources_imdb_resume(o) ==
    IF o.k = "get" THEN Fetching(helper, o.ep, loc, <<>>, ret)
    ELSE IF o.k = "raise" THEN Finish(<<>>, o.exc, o)
    ELSE IF ~Truthy(o.val) THEN Finish(<<Msg("no_platforms", "none")>>, "", o)
    ELSE Finish(<<Msg("sources", "menu")>>, "", o)

\* on_platform after watchmode_titles_by_source_name moved on.
on_platform_resume(o) ==
    LET titles == IF o.k = "raise" THEN EmptyList ELSE o.val IN
    IF o.k = "get" THEN Fetching(helper, o.ep, loc, <<>>, ret)
    ELSE IF ~Truthy(titles) THEN Finish(<<Msg("no_titles", "menu")>>, "", o)
    ELSE Finish(<<Msg("titles", "menu")>>, "", o)

\* A helper called on its own: its outcome goes to the caller.
direct_resume(o) ==
    IF o.k = "get" THEN Fetching(helper, o.ep, loc, <<>>, ret)
    ELSE Finish(<<>>, "", o)

-----------------------------------------------------------------------------
(* State machine *)

Init ==
    /\ TRAKT_CLIENT_ID \in {"", "trakt_xxx"}
    /\ WATCHMODE_API_KEY \in {"", "watchmode_xxx"}
    /\ _client = 0
    /\ made = 0
    /\ handler = "idle"
    /\ running = FALSE
    /\ helper = ""
    /\ gets = <<>>
    /\ recv = <<>>
    /\ loc = NoLoc
    /\ ret = NoRet
    /\ replies = <<>>
    /\ unhandled = ""
    /\ shown = {}
    /\ budget = 0
    /\ target = ""
    /\ script = <<>>
    /\ task = [p \in 1..NumTasks |-> [pc |-> "idle", n |-> 0, c |-> 0]]

Pending == Len(gets) > Len(recv)
PendingEp == gets[Len(gets)]
\* Which attempt of its logical fetch the pending GET is.
Attempt == Cardinality({i \in 1..Len(gets) : Logical(gets[i]) = Logical(PendingEp)})
\* What upstream may answer to the pending GET.
Upstream ==
    IF Logical(PendingEp) = target /\ Attempt <= Len(script)
    THEN {script[Attempt]} ELSE Responses

\* The state after the handler ran to its next await (or to its end).
Apply(c) ==
    /\ running' = c.running
    /\ helper' = c.helper
    /\ loc' = c.loc
    /\ ret' = c.ret
    /\ replies' = replies \o c.say
    /\ unhandled' = c.exc
    /\ shown' = shown \cup ({c.say[i].kb : i \in 1..Len(c.say)} \ {"none"})
    /\ IF c.get # ""
       THEN LET cl == client(_client, made) IN
            /\ gets' = Append(gets, c.get)
            /\ _client' = cl.c
            /\ made' = cl.made
       ELSE UNCHANGED <<gets, _client, made>>
    /\ UNCHANGED <<TRAKT_CLIENT_ID, WATCHMODE_API_KEY, task>>

\* An update is dispatched to handler h.
Dispatch(h, c) ==
    /\ handler = "idle"
    /\ handler' = h
    /\ Apply(c)
    /\ UNCHANGED <<recv, budget, target, script>>

\* The response to the pending GET of handler h arrives.
Resume(h, resp, c) ==
    /\ handler = h
    /\ running
    /\ Pending
    /\ resp \in Upstream
    /\ recv' = Append(recv, resp)
    /\ Apply(c)
    /\ UNCHANGED <<handler, budget, target, script>>

cmd_start == Dispatch("cmd_start", Finish(<<Msg("welcome", "menu")>>, "", NoRet))

cmd_ping == Dispatch("cmd_ping", Finish(<<Msg("pong", "none")>>, "", NoRet))

cmd_search ==
    \E q \in {"", "q"} :
        Dispatch("cmd_search",
                 IF q = "" THEN Finish(<<Msg("usage", "none")>>, "", NoRet)
                 ELSE Fetching("omdb_search", "omdb_s", NoLoc, <<>>, NoRet))

cmd_search_resume ==
    /\ handler = "cmd_search"
    /\ \E resp \in Responses :
        Resume("cmd_search", resp,
               IF PendingEp = "omdb_s" THEN cmd_search_rows(omdb_search(resp))
               ELSE cmd_search_item(omdb_by_id(resp)))

cmd_today == Dispatch("cmd_today", show_start("today"))

cmd_week == Dispatch("cmd_week", show_start("week"))

on_menu ==
    \E action \in {"today", "week", "platform", "home"} :
        /\ (IF action = "home" THEN "platforms" ELSE "menu") \in shown
        /\ Dispatch("on_menu",
                    CASE action = "today" -> show_start("today")
                      [] action = "week" -> show_start("week")
                      [] action = "platform" ->
                            Finish(<<Msg("choose_platform", "platforms")>>, "", NoRet)
                      [] OTHER -> Finish(<<Msg("main_menu", "menu")>>, "", NoRet))

show_today_week_resume ==
    /\ handler \in {"cmd_today", "cmd_week", "on_menu"}
    /\ \E resp \in Responses :
        Resume(handler, resp, show_resume(PendingEp, trakt_calendar(PendingEp, resp)))

on_sources_imdb ==
    /\ "src_imdb" \in shown
    /\ Dispatch("on_sources_imdb",
                IF WATCHMODE_API_KEY = ""
                THEN Finish(<<Msg("sources_disabled", "none")>>, "", NoRet)
                ELSE Fetching("watchmode_sources_by_imdb", "wm_search", NoLoc, <<>>, NoRet))

on_sources_imdb_response ==
    /\ handler = "on_sources_imdb"
    /\ \E resp \in Responses :
        Resume("on_sources_imdb", resp,
               on_sources_imdb_resume(watchmode_sources_by_imdb(PendingEp, resp)))

cmd_platform ==
    Dispatch("cmd_platform",
             IF WATCHMODE_API_KEY = ""
             THEN Finish(<<Msg("needs_watchmode", "none")>>, "", NoRet)
             ELSE Finish(<<Msg("choose_platform", "platforms")>>, "", NoRet))

on_platform ==
    /\ "platforms" \in shown
    /\ Dispatch("on_platform",
                IF WATCHMODE_API_KEY = ""
                THEN Finish(<<Msg("watchmode_off", "none")>>, "", NoRet)
                ELSE Fetching("watchmode_titles_by_source_name", "wm_sources", NoLoc, <<>>, NoRet))

on_platform_response ==
    /\ handler = "on_platform"
    /\ \E resp \in Responses :
        Resume("on_platform", resp,
               on_platform_resume(watchmode_titles_by_source_name(PendingEp, resp)))

\* The handler is over; the application waits for the next update.
Returned ==
    /\ handler # "idle"
    /\ ~running
    /\ handler' = "idle"
    /\ helper' = ""
    /\ gets' = <<>>
    /\ recv' = <<>>
    /\ loc' = NoLoc
    /\ ret' = NoRet
    /\ replies' = <<>>
    /\ unhandled' = ""
    /\ budget' = 0
    /\ target' = ""
    /\ script' = <<>>
    /\ UNCHANGED <<TRAKT_CLIENT_ID, WATCHMODE_API_KEY, _client, made, running, shown, task>>

Next ==
    \/ cmd_start
    \/ cmd_ping
    \/ cmd_search
    \/ cmd_search_resume
    \/ cmd_today
    \/ cmd_week
    \/ on_menu
    \/ show_today_week_resume
    \/ on_sources_imdb
    \/ on_sources_imdb_response
    \/ cmd_platform
    \/ on_platform
    \/ on_platform_response
    \/ Returned

Spec == Init /\ [][Next]_vars

-----------------------------------------------------------------------------
(* One helper call against a scripted upstream *)

\* A caller awaits helper h with retry budget N for its fetch tgt, while
\* upstream answers the attempts of tgt with scr[1], scr[2], ...
DirectCall ==
    /\ handler = "idle"
    /\ \E h \in Helpers, N \in 1..MaxBudget :
      \E tgt \in FetchesOf(h), scr \in [1..N -> Responses] :
        /\ budget' = N
        /\ target' = tgt
        /\ script' = scr
        /\ UNCHANGED recv
        /\ handler' = "direct"
        /\ LET s == HelperStart(h, IF tgt = "trakt_movies" THEN "movies" ELSE "shows") IN
           Apply(IF s.k = "get" THEN Fetching(h, s.ep, NoLoc, <<>>, NoRet)
                 ELSE Finish(<<>>, "", s))

DirectResume ==
    /\ handler = "direct"
    /\ \E resp \in Responses :
        Resume("direct", resp, direct_resume(HelperStep(helper, PendingEp, resp)))

NextFetch == DirectCall \/ DirectResume \/ Returned

SpecFetch == Init /\ [][NextFetch]_vars

-----------------------------------------------------------------------------
(* Handlers running concurrently on the event loop, as users of client() *)

\* A handler task runs from its dispatch to its first await client().get(...).
TaskGet(p) ==
    /\ task[p].pc = "idle"
    /\ LET cl == client(_client, made) IN
       /\ _client' = cl.c
       /\ made' = cl.made
       /\ task' = [task EXCEPT ![p] = [pc |-> "await", n |-> 1, c |-> cl.c]]
    /\ UNCHANGED <<TRAKT_CLIENT_ID, WATCHMODE_API_KEY, handler, running, helper, gets,
                   recv, loc, ret, replies, unhandled, shown, budget, target, script>>

\* The awaited response arrives: the task runs to its next fetch, or to its end.
TaskResume(p) ==
    /\ task[p].pc = "await"
    /\ \/ /\ task[p].n < MaxFetches
          /\ LET cl == client(_client, made) IN
             /\ _client' = cl.c
             /\ made' = cl.made
             /\ task' = [task EXCEPT ![p] = [pc |-> "await", n |-> task[p].n + 1, c |-> cl.c]]
       \/ /\ task' = [task EXCEPT ![p].pc = "idle"]
          /\ UNCHANGED <<_client, made>>
    /\ UNCHANGED <<TRAKT_CLIENT_ID, WATCHMODE_API_KEY, handler, running, helper, gets,
                   recv, loc, ret, replies, unhandled, shown, budget, target, script>>

NextClient == \E p \in 1..NumTasks : TaskGet(p) \/ TaskResume(p)

SpecClient == Init /\ [][NextClient]_vars

-----------------------------------------------------------------------------
(* Vocabulary of the properties *)

IsTransient(r) == r.net /\ r.status \in Transient
IsErrorStatus(r) == r.net /\ r.status # 200
IsOkJson(r) == r.net /\ r.status = 200 /\ IsJson(r.body)
IsMalformed(r) == r.net /\ r.status = 200 /\ ~IsJson(r.body)
IsEmptyJson(r) == r.net /\ r.status = 200 /\ r.body \in {"null", "{}", "[]"}
\* Error status, connection or timeout error, decode error.
IsFetchFailure(r) == ~IsOkJson(r)

\* A directly awaited helper call is over.
CallDone == handler = "direct" /\ ~running
\* A handler is over.
HandlerDone == handler \notin {"idle", "direct"} /\ ~running

\* Positions in the log of the GETs of logical fetch f.
GetsOf(f) == {i \in 1..Len(gets) : Logical(gets[i]) = f}
Attempts(f) == Cardinality(GetsOf(f))
\* Position of attempt a of logical fetch f.
NthGet(f, a) == CHOOSE i \in GetsOf(f) : Cardinality({j \in GetsOf(f) : j <= i}) = a
Fetched == {Logical(gets[i]) : i \in 1..Len(recv)}

\* The fetches after which a helper returns to its caller.
LastFetch(h) ==
    CASE h = "watchmode_sources_by_imdb" -> {"wm_title_sources"}
      [] h = "watchmode_titles_by_source_name" -> {"wm_titles"}
      [] OTHER -> FetchesOf(h)
FirstEndpoint(f) == IF f = "wm_titles" THEN "wm_titles_plural" ELSE f

-----------------------------------------------------------------------------
(* C1 *)

\* C1: for every retry budget N >= 1, when upstream answers the first N-1
\* attempts of a fetch with a transient status and the Nth with a 200 and
\* valid JSON, the fetch has issued exactly N GETs and the helper returns
\* what it makes of the Nth response's JSON.
C1_RetriesUntilSuccess ==
    (/\ CallDone
     /\ Attempts(target) >= 1
     /\ \A i \in 1..(budget - 1) : IsTransient(script[i])
     /\ IsOkJson(script[budget]))
    => /\ Attempts(target) = budget
       /\ target \in LastFetch(helper)
            => ret = HelperStep(helper, FirstEndpoint(target), script[budget])

-----------------------------------------------------------------------------
(* C2 *)

\* C2: for every retry budget N >= 1, when upstream answers every attempt of
\* a fetch with a transient status, the fetch ends in an error after exactly
\* N GETs.
C2_ExhaustsBudget ==
    (/\ CallDone
     /\ Attempts(target) >= 1
     /\ \A i \in 1..budget : IsTransient(script[i]))
    => /\ Attempts(target) = budget
       /\ ret.k = "raise"

-----------------------------------------------------------------------------
(* C3 *)

IsNonTransientError(r) == IsErrorStatus(r) /\ r.status \notin Transient

-----------------------------------------------------------------------------
(* C4 *)

\* C4: a 200 response whose body is not valid JSON makes the helper raise a
\* decode error to its caller, for every helper and every request it makes.
C4_MalformedBodyRaises ==
    \A i \in 1..Len(recv) :
        (CallDone /\ IsMalformed(recv[i])) => ret = Raise("JSONDecodeError")

-----------------------------------------------------------------------------
(* C5 *)

\* C5: whatever fetch of a handler fails (error status, connection or timeout
\* error, decode error), the handler catches the error: none reaches on_error.
C5_FetchErrorsCaught ==
    (HandlerDone /\ \E i \in 1..Len(recv) : IsFetchFailure(recv[i]))
    => unhandled = ""

-----------------------------------------------------------------------------
(* C6 *)

\* C6: a 200 response whose JSON body is empty (null, {} or []) is an empty
\* result to the helper and to the handler that consumes it: neither raises.
C6_EmptyBodyIsEmptyResult ==
    (HandlerDone /\ recv # <<>> /\ \A i \in 1..Len(recv) : IsEmptyJson(recv[i]))
    => unhandled = "" /\ ret.k # "raise"

-----------------------------------------------------------------------------
(* C7 *)

WatchmodeEndpoints ==
    {"wm_search", "wm_title_sources", "wm_sources", "wm_titles_plural", "wm_titles_singular"}

\* C7: without WATCHMODE_API_KEY the chat is never shown the where-to-watch
\* button or the platform menu, and no request goes to Watchmode.
C7_NoWatchmodeWithoutKey ==
    WATCHMODE_API_KEY = ""
    => /\ "src_imdb" \notin shown
       /\ "platforms" \notin shown
       /\ \A i \in 1..Len(gets) : gets[i] \notin WatchmodeEndpoints

-----------------------------------------------------------------------------
(* C8 *)

\* C8: without TRAKT_CLIENT_ID, /today, /week and their menu buttons issue no
\* request to Trakt and answer with a reply other than the one sent when a
\* Trakt fetch fails or returns nothing.
C8_SaysTraktIdRequired ==
    (HandlerDone /\ loc.show # "" /\ TRAKT_CLIENT_ID = "")
    => /\ gets = <<>>
       /\ Len(replies) = 1
       /\ replies[1].text # "trakt_unavailable"

-----------------------------------------------------------------------------
(* C9 *)

\* C9: however the handler tasks interleave at their awaits, at most one
\* client is ever constructed and every fetch uses the stored one.
C9_OneSharedClient ==
    /\ made <= 1
    /\ \A p \in 1..NumTasks : task[p].c # 0 => task[p].c = _client

C9_Witness ==
    /\ made = 1
    /\ \E p, q \in 1..NumTasks :
        /\ p # q
        /\ task[p].pc = "await" /\ task[p].n = MaxFetches
        /\ task[q].pc = "await" /\ task[q].n = 1
        /\ task[p].c = _client /\ task[q].c = _client

-----------------------------------------------------------------------------
(* C10 *)

TitlesGets == SelectSeq(gets, LAMBDA e : Logical(e) = "wm_titles")

\* C10: watchmode_titles_by_source_name issues at most two list-titles
\* requests, plural parameters first, and the singular one only after an
\* HTTP error status on the plural one; a failed singular request yields the
\* empty list; any other failure of the plural request is raised with no
\* second request.
C10_ListTitlesFallback ==
    helper = "watchmode_titles_by_source_name"
    => /\ TitlesGets \in {<<>>, <<"wm_titles_plural">>,
                          <<"wm_titles_plural", "wm_titles_singular">>}
       /\ Len(TitlesGets) = 2 => IsErrorStatus(recv[NthGet("wm_titles", 1)])
       /\ (CallDone /\ Len(TitlesGets) = 2 /\ IsFetchFailure(recv[NthGet("wm_titles", 2)]))
            => ret = Return(EmptyList)
       /\ (CallDone /\ Len(TitlesGets) >= 1
             /\ IsFetchFailure(recv[NthGet("wm_titles", 1)])
             /\ ~IsErrorStatus(recv[NthGet("wm_titles", 1)]))
            => /\ Len(TitlesGets) = 1
               /\ ret.k = "raise"
               /\ ret.exc \in {"TransportError", "JSONDecodeError"}

C10_Witness ==
    /\ CallDone
    /\ helper = "watchmode_titles_by_source_name"
    /\ gets = <<"wm_sources", "wm_titles_plural", "wm_titles_singular">>
    /\ IsErrorStatus(recv[2])
    /\ ~recv[3].net
    /\ ret = Return(EmptyList)

====
